---- MODULE Spec2Model ----
(***************************************************************************)
(* Status-filter / query-parameter state of the platform list pages:       *)
(* StatusTabs (features/platform/components/StatusTabs.tsx) and the        *)
(* inventory list page (InventoryListPageClient.tsx).                      *)
(*                                                                         *)
(* A JavaScript string is a sequence of one-character strings, so that     *)
(* URL encoding, URL decoding and JSON are computed character by           *)
(* character.  The alphabet is printable ASCII; a decoded byte outside it  *)
(* is the single token NonAscii.                                           *)
(***************************************************************************)
EXTENDS Integers, Sequences, FiniteSets, TLC

(***************************************************************************)
(* Characters                                                              *)
(***************************************************************************)
Ascii ==
  <<
    " ", "!", "\"", "#", "$", "%", "&", "'", "(", ")", "*", "+", ",", "-", ".", "/",
    "0", "1", "2", "3", "4", "5", "6", "7", "8", "9", ":", ";", "<", "=", ">", "?",
    "@", "A", "B", "C", "D", "E", "F", "G", "H", "I", "J", "K", "L", "M", "N", "O",
    "P", "Q", "R", "S", "T", "U", "V", "W", "X", "Y", "Z", "[", "\\", "]", "^", "_",
    "GRAVE", "a", "b", "c", "d", "e", "f", "g", "h", "i", "j", "k", "l", "m", "n", "o",
    "p", "q", "r", "s", "t", "u", "v", "w", "x", "y", "z", "{", "|", "}", "~"
  >>

AsciiSet == {Ascii[i] : i \in DOMAIN Ascii}

NonAscii == "U+FFFD"

\* Code unit of a printable character (Ascii[1] is the space, code 32; the
\* grave accent, code 96, is written GRAVE).
CodeTable == [c \in AsciiSet |-> (CHOOSE i \in DOMAIN Ascii : Ascii[i] = c) + 31]

CharCode(c) == CodeTable[c]

CharOfCode(n) == IF n - 31 \in DOMAIN Ascii THEN Ascii[n - 31] ELSE NonAscii

HexDigits == <<"0", "1", "2", "3", "4", "5", "6", "7", "8", "9", "A", "B", "C", "D", "E", "F">>

LowerHex == <<"a", "b", "c", "d", "e", "f">>

HexTable ==
  [c \in {HexDigits[i] : i \in DOMAIN HexDigits} \cup {LowerHex[i] : i \in DOMAIN LowerHex} |->
     IF \E i \in DOMAIN HexDigits : HexDigits[i] = c
     THEN (CHOOSE i \in DOMAIN HexDigits : HexDigits[i] = c) - 1
     ELSE (CHOOSE i \in DOMAIN LowerHex : LowerHex[i] = c) + 9]

IsHexDigit(c) == c \in DOMAIN HexTable

HexVal(c) == HexTable[c]

\* "%XX" for one byte, upper-case hex as the URL standard writes it.
PercentEncodeByte(n) == <<"%", HexDigits[(n \div 16) + 1], HexDigits[(n % 16) + 1]>>

IsAlnum(c) ==
  /\ c \in AsciiSet
  /\ LET n == CharCode(c)
     IN  \/ (n >= 48 /\ n <= 57)
         \/ (n >= 65 /\ n <= 90)
         \/ (n >= 97 /\ n <= 122)

IsDigit(c) == c \in {"0", "1", "2", "3", "4", "5", "6", "7", "8", "9"}

DropN(s, n) == SubSeq(s, n + 1, Len(s))

StartsWith(s, p) == Len(s) >= Len(p) /\ SubSeq(s, 1, Len(p)) = p

\* Index of the first occurrence of character c in s from position i on, or 0.
RECURSIVE IndexFrom(_, _, _)
IndexFrom(s, c, i) ==
  IF i > Len(s) THEN 0
  ELSE IF s[i] = c THEN i
  ELSE IndexFrom(s, c, i + 1)

IndexOf(s, c) == IndexFrom(s, c, 1)

(***************************************************************************)
(* URLSearchParams: the application/x-www-form-urlencoded serializer and   *)
(* parser.  A URLSearchParams object is a sequence of <<name, value>>.     *)
(***************************************************************************)
\* One character in the urlencoded serialization: alphanumerics and *-._
\* stay, the space becomes "+", the rest is percent-encoded (U+FFFD as its
\* three UTF-8 bytes).
UrlencodedChar ==
  [c \in AsciiSet \cup {NonAscii} |->
     IF c = " " THEN <<"+">>
     ELSE IF c = NonAscii THEN <<"%", "E", "F", "%", "B", "F", "%", "B", "D">>
     ELSE IF IsAlnum(c) \/ c \in {"*", "-", ".", "_"} THEN <<c>>
     ELSE PercentEncodeByte(CharCode(c))]

RECURSIVE UrlencodedByteSerialize(_)
UrlencodedByteSerialize(s) ==
  IF s = <<>> THEN <<>>
  ELSE UrlencodedChar[Head(s)] \o UrlencodedByteSerialize(Tail(s))

RECURSIVE ParamsToString(_)
ParamsToString(params) ==
  IF params = <<>> THEN <<>>
  ELSE LET p == Head(params)
           one == UrlencodedByteSerialize(p[1]) \o <<"=">> \o UrlencodedByteSerialize(p[2])
       IN  IF Len(params) = 1 THEN one
           ELSE one \o <<"&">> \o ParamsToString(Tail(params))

\* Lenient percent-decoding of the URL standard: a "%" that is not followed
\* by two hex digits is kept as it is; "+" has become a space before.
RECURSIVE PercentDecodeLenient(_)
PercentDecodeLenient(s) ==
  IF s = <<>> THEN <<>>
  ELSE IF Head(s) = "%" /\ Len(s) >= 3 /\ IsHexDigit(s[2]) /\ IsHexDigit(s[3])
       THEN <<CharOfCode(16 * HexVal(s[2]) + HexVal(s[3]))>> \o PercentDecodeLenient(DropN(s, 3))
       ELSE <<(IF Head(s) = "+" THEN " " ELSE Head(s))>> \o PercentDecodeLenient(Tail(s))

ParsePair(piece) ==
  LET i == IndexOf(piece, "=")
      n == IF i = 0 THEN piece ELSE SubSeq(piece, 1, i - 1)
      v == IF i = 0 THEN <<>> ELSE DropN(piece, i)
  IN  <<PercentDecodeLenient(n), PercentDecodeLenient(v)>>

RECURSIVE UrlencodedParse(_)
UrlencodedParse(s) ==
  IF s = <<>> THEN <<>>
  ELSE LET i == IndexOf(s, "&")
           piece == IF i = 0 THEN s ELSE SubSeq(s, 1, i - 1)
           rest == IF i = 0 THEN <<>> ELSE DropN(s, i)
       IN  IF piece = <<>> THEN UrlencodedParse(rest)
           ELSE <<ParsePair(piece)>> \o UrlencodedParse(rest)

\* new URLSearchParams(init): a single leading "?" is dropped.
NewURLSearchParams(init) ==
  UrlencodedParse(IF init # <<>> /\ Head(init) = "?" THEN Tail(init) ELSE init)

ParamsHas(params, name) == \E i \in DOMAIN params : params[i][1] = name

\* null: a one-element sequence whose element is no character, so that it
\* differs from every string.
Null == <<"NULL">>

\* URLSearchParams.get: the value of the first pair with that name; Null if none.

ParamsGet(params, name) ==
  IF ParamsHas(params, name)
  THEN params[CHOOSE i \in DOMAIN params :
                /\ params[i][1] = name
                /\ \A j \in 1..(i - 1) : params[j][1] # name][2]
  ELSE Null

RECURSIVE ParamsDelete(_, _)
ParamsDelete(params, name) ==
  IF params = <<>> THEN <<>>
  ELSE IF Head(params)[1] = name THEN ParamsDelete(Tail(params), name)
       ELSE <<Head(params)>> \o ParamsDelete(Tail(params), name)

\* URLSearchParams.set: the first pair with that name takes the value and the
\* others with that name are removed; appended if there is none.
ParamsSet(params, name, value) ==
  IF ParamsHas(params, name)
  THEN LET i == CHOOSE k \in DOMAIN params :
                  /\ params[k][1] = name
                  /\ \A j \in 1..(k - 1) : params[j][1] # name
       IN  SubSeq(params, 1, i - 1) \o <<<<name, value>>>>
             \o ParamsDelete(DropN(params, i), name)
  ELSE Append(params, <<name, value>>)

(***************************************************************************)
(* decodeURIComponent: strict percent-decoding.  It throws URIError on a   *)
(* "%" that is not followed by two hex digits and on a byte that is not    *)
(* the start of a well-formed UTF-8 sequence (here: any byte >= 0x80, the  *)
(* alphabet being ASCII).  The result is [threw, v].                       *)
(***************************************************************************)
URIMalformed(s) ==
  \E i \in DOMAIN s :
    /\ s[i] = "%"
    /\ \/ i + 2 > Len(s)
       \/ ~IsHexDigit(s[i + 1])
       \/ ~IsHexDigit(s[i + 2])
       \/ 16 * HexVal(s[i + 1]) + HexVal(s[i + 2]) >= 128

RECURSIVE PercentDecodeStrict(_)
PercentDecodeStrict(s) ==
  IF s = <<>> THEN <<>>
  ELSE IF Head(s) = "%"
       THEN <<CharOfCode(16 * HexVal(s[2]) + HexVal(s[3]))>> \o PercentDecodeStrict(DropN(s, 3))
       ELSE <<Head(s)>> \o PercentDecodeStrict(Tail(s))

decodeURIComponent(s) ==
  IF URIMalformed(s) THEN [threw |-> TRUE, v |-> <<>>]
  ELSE [threw |-> FALSE, v |-> PercentDecodeStrict(s)]

(***************************************************************************)
(* JavaScript values: [t |-> type, v |-> payload].  The payload of a       *)
(* string is its characters, of a number its JSON lexeme, of an array the  *)
(* sequence of its elements, of an object the sequence of its <<key,       *)
(* value>> members in source order.                                        *)
(***************************************************************************)
JsString(s) == [t |-> "string", v |-> s]

JsNumber(lexeme) == [t |-> "number", v |-> lexeme]

JsBoolean(b) == [t |-> "boolean", v |-> b]

JsNull == [t |-> "null", v |-> <<>>]

JsUndefined == [t |-> "undefined", v |-> <<>>]

JsArray(elems) == [t |-> "array", v |-> elems]

JsObject(members) == [t |-> "object", v |-> members]

\* x === y for the values compared here (strings against anything).
StrictEquals(x, y) ==
  /\ x.t = y.t
  /\ x.t \in {"null", "undefined"} \/ x.v = y.v

\* typeof x
TypeOf(x) ==
  IF x.t \in {"null", "array", "object"} THEN "object" ELSE x.t

\* x[name] for a property name that no prototype defines: the own property
\* of an object (the last member of that name wins in JSON.parse), else
\* undefined.  Reading a property of null or undefined throws TypeError.
HasOwn(x, name) == x.t = "object" /\ \E i \in DOMAIN x.v : x.v[i][1] = name

GetProperty(x, name) ==
  IF x.t \in {"null", "undefined"} THEN [threw |-> TRUE, v |-> JsUndefined]
  ELSE IF HasOwn(x, name)
       THEN [threw |-> FALSE,
             v |-> x.v[CHOOSE i \in DOMAIN x.v :
                         /\ x.v[i][1] = name
                         /\ \A j \in (i + 1)..Len(x.v) : x.v[j][1] # name][2]]
       ELSE [threw |-> FALSE, v |-> JsUndefined]

(***************************************************************************)
(* JSON.parse: a recursive-descent parser of the JSON grammar.  Each       *)
(* parser returns [ok, v, rest].                                           *)
(***************************************************************************)
ParseFail == [ok |-> FALSE, v |-> JsUndefined, rest |-> <<>>]

ParseOk(val, rest) == [ok |-> TRUE, v |-> val, rest |-> rest]

RECURSIVE SkipWs(_)
SkipWs(s) == IF s # <<>> /\ Head(s) = " " THEN SkipWs(Tail(s)) ELSE s

\* Number of leading decimal digits of s.
RECURSIVE DigitRun(_)
DigitRun(s) == IF s # <<>> /\ IsDigit(Head(s)) THEN 1 + DigitRun(Tail(s)) ELSE 0

\* number = "-"? ("0" | [1-9][0-9]*) ("." [0-9]+)? ([eE] [+-]? [0-9]+)?
\* Length of the longest number lexeme at the start of s; 0 when there is none.
NumberLen(s) ==
  LET sign == IF s # <<>> /\ Head(s) = "-" THEN 1 ELSE 0
      a == DropN(s, sign)
      int == IF a = <<>> THEN 0
             ELSE IF Head(a) = "0" THEN 1
             ELSE DigitRun(a)
      b == DropN(a, int)
      fracDigits == IF b # <<>> /\ Head(b) = "." THEN DigitRun(Tail(b)) ELSE 0
      frac == IF fracDigits > 0 THEN 1 + fracDigits ELSE 0
      c == DropN(b, frac)
      hasE == c # <<>> /\ Head(c) \in {"e", "E"}
      esign == IF hasE /\ Len(c) >= 2 /\ c[2] \in {"+", "-"} THEN 1 ELSE 0
      expDigits == IF hasE THEN DigitRun(DropN(c, 1 + esign)) ELSE 0
      exp == IF expDigits > 0 THEN 1 + esign + expDigits ELSE 0
  IN  IF int = 0 THEN 0
      ELSE IF b # <<>> /\ Head(b) = "." /\ fracDigits = 0 THEN 0
      ELSE sign + int + frac + exp

\* The characters of a string literal, s being what follows the opening quote.
RECURSIVE ParseStringChars(_, _)
ParseStringChars(s, acc) ==
  IF s = <<>> THEN ParseFail
  ELSE IF Head(s) = "\"" THEN ParseOk(JsString(acc), Tail(s))
  ELSE IF Head(s) = "\\"
       THEN IF Len(s) < 2 THEN ParseFail
            ELSE IF s[2] \in {"\"", "\\", "/"}
                 THEN ParseStringChars(DropN(s, 2), Append(acc, s[2]))
            ELSE IF s[2] \in {"b", "f", "n", "r", "t"}
                 THEN ParseStringChars(DropN(s, 2), Append(acc, NonAscii))
            ELSE IF /\ s[2] = "u"
                    /\ Len(s) >= 6
                    /\ \A k \in 3..6 : IsHexDigit(s[k])
                 THEN ParseStringChars(DropN(s, 6),
                        Append(acc, IF s[3] = "0" /\ s[4] = "0"
                                    THEN CharOfCode(16 * HexVal(s[5]) + HexVal(s[6]))
                                    ELSE NonAscii))
            ELSE ParseFail
  ELSE ParseStringChars(Tail(s), Append(acc, Head(s)))

RECURSIVE ParseValue(_)
RECURSIVE ParseElements(_, _)
RECURSIVE ParseMembers(_, _)

ParseValue(s0) ==
  LET s == SkipWs(s0)
  IN  IF s = <<>> THEN ParseFail
      ELSE IF Head(s) = "\"" THEN ParseStringChars(Tail(s), <<>>)
      ELSE IF Head(s) = "["
           THEN LET a == SkipWs(Tail(s))
                IN  IF a # <<>> /\ Head(a) = "]" THEN ParseOk(JsArray(<<>>), Tail(a))
                    ELSE ParseElements(a, <<>>)
      ELSE IF Head(s) = "{"
           THEN LET a == SkipWs(Tail(s))
                IN  IF a # <<>> /\ Head(a) = "}" THEN ParseOk(JsObject(<<>>), Tail(a))
                    ELSE ParseMembers(a, <<>>)
      ELSE IF StartsWith(s, <<"n", "u", "l", "l">>) THEN ParseOk(JsNull, DropN(s, 4))
      ELSE IF StartsWith(s, <<"t", "r", "u", "e">>) THEN ParseOk(JsBoolean(TRUE), DropN(s, 4))
      ELSE IF StartsWith(s, <<"f", "a", "l", "s", "e">>)
           THEN ParseOk(JsBoolean(FALSE), DropN(s, 5))
      ELSE IF NumberLen(s) > 0
           THEN ParseOk(JsNumber(SubSeq(s, 1, NumberLen(s))), DropN(s, NumberLen(s)))
      ELSE ParseFail

\* value ("," value)* "]"
ParseElements(s, acc) ==
  LET e == ParseValue(s)
      r == SkipWs(e.rest)
  IN  IF ~e.ok \/ r = <<>> THEN ParseFail
      ELSE IF Head(r) = "]" THEN ParseOk(JsArray(Append(acc, e.v)), Tail(r))
      ELSE IF Head(r) = "," THEN ParseElements(Tail(r), Append(acc, e.v))
      ELSE ParseFail

\* string ":" value ("," string ":" value)* "}"
ParseMembers(s0, acc) ==
  LET s == SkipWs(s0)
      k == IF s # <<>> /\ Head(s) = "\"" THEN ParseStringChars(Tail(s), <<>>) ELSE ParseFail
      c == SkipWs(k.rest)
      e == IF k.ok /\ c # <<>> /\ Head(c) = ":" THEN ParseValue(Tail(c)) ELSE ParseFail
      r == SkipWs(e.rest)
  IN  IF ~e.ok \/ r = <<>> THEN ParseFail
      ELSE IF Head(r) = "}" THEN ParseOk(JsObject(Append(acc, <<k.v.v, e.v>>)), Tail(r))
      ELSE IF Head(r) = "," THEN ParseMembers(Tail(r), Append(acc, <<k.v.v, e.v>>))
      ELSE ParseFail

\* JSON.parse(text): [threw, v]; SyntaxError unless the whole text is one value.
JSONParse(text) ==
  LET p == ParseValue(text)
  IN  IF p.ok /\ SkipWs(p.rest) = <<>> THEN [threw |-> FALSE, v |-> p.v]
      ELSE [threw |-> TRUE, v |-> JsUndefined]

\* The quoted form JSON.stringify gives a string.
RECURSIVE QuoteJSONChars(_)
QuoteJSONChars(s) ==
  IF s = <<>> THEN <<>>
  ELSE (IF Head(s) \in {"\"", "\\"} THEN <<"\\", Head(s)>> ELSE <<Head(s)>>)
         \o QuoteJSONChars(Tail(s))

\* Mutant: JSON.stringify(str), the array forgotten.
JSONStringifyString(str) == <<"\"">> \o QuoteJSONChars(str) \o <<"\"">>

\* JSON.stringify([str])
JSONStringifyArray1(str) == <<"[", "\"">> \o QuoteJSONChars(str) \o <<"\"", "]">>

(***************************************************************************)
(* String constants of the two components                                  *)
(***************************************************************************)
all == <<"a", "l", "l">>

in_stock == <<"i", "n", "_", "s", "t", "o", "c", "k">>

low_stock == <<"l", "o", "w", "_", "s", "t", "o", "c", "k">>

out_of_stock == <<"o", "u", "t", "_", "o", "f", "_", "s", "t", "o", "c", "k">>

backordered == <<"b", "a", "c", "k", "o", "r", "d", "e", "r", "e", "d">>

PageName == <<"p", "a", "g", "e">>

StatusMatchesName == <<"!", "s", "t", "a", "t", "u", "s", "_", "m", "a", "t", "c", "h", "e", "s">>

ValueName == <<"v", "a", "l", "u", "e">>

\* statusConfig of the inventory page, in Object.entries order (insertion
\* order: none of the keys is an integer index).
statusConfig ==
  << [value |-> in_stock,     label |-> "In Stock",     color |-> "emerald"],
     [value |-> low_stock,    label |-> "Low Stock",    color |-> "yellow"],
     [value |-> out_of_stock, label |-> "Out of Stock", color |-> "red"],
     [value |-> backordered,  label |-> "Backordered",  color |-> "purple"] >>

StatusKeys == {statusConfig[i].value : i \in DOMAIN statusConfig}

(***************************************************************************)
(* State                                                                   *)
(***************************************************************************)
VARIABLES
  pathname,       \* usePathname() / window.location.pathname
  search,         \* window.location.search: "" or "?" and the query
  list,           \* props.list is present
  initialError,   \* props.initialError: Null or a non-empty message
  dataCount,      \* props.initialData.count
  searchString,   \* props.initialSearchParams.search
  statusCounts,   \* props.statusCounts: <<>> for null, else <<map from key to count>>
  last            \* the last handler or navigation that ran, its argument and
                  \* the URL it ran on

\* StatusTabs: its state, its refs, the DOM it reads and its last output.
VARIABLES
  hoveredIndex,        \* useState<number | null>(null): <<>> for null, else <<index>>
  tabRefs,             \* tabRefs.current: one entry per mounted tab node
  scrollContainerRef,  \* scrollContainerRef.current is a node
  scrollLeft,          \* scrollLeft of the scroll container in the DOM
  layout,              \* the viewport's layout, which fixes every tab's geometry
  view                 \* what the last render of StatusTabs read, from which
                       \* its output follows: <<>> or <<reads>>

inventoryVars ==
  <<pathname, search, list, initialError, dataCount, searchString, statusCounts, last>>

viewVars == <<hoveredIndex, tabRefs, scrollContainerRef, scrollLeft, layout, view>>

\* AppsPageClient: its state and the createOpenshipOAuthApp call in flight.
VARIABLES
  activatedApps,           \* useState<string[]>([])
  isActivationDialogOpen,  \* useState(false)
  selectedApp,             \* useState<AvailableApp | null>(null): <<>> or <<app>>
  openshipUrl,             \* useState('')
  isCreatingApp,           \* useState(false)
  createCall,              \* the awaited call of handleCreateApp with the
                           \* selectedApp and URL of its closure: <<>> or <<call>>
  returnedSuccess,         \* the app ids for which a call has returned success
  lastApps                 \* the last event of the page and the state it met

appsVars ==
  <<activatedApps, isActivationDialogOpen, selectedApp, openshipUrl, isCreatingApp,
    createCall, returnedSuccess, lastApps>>

\* CreateApiKey: its state and the createApiKey call in flight.
VARIABLES
  open,              \* useState(false)
  loading,           \* useState(false)
  showToken,         \* useState(false)
  createdToken,      \* useState("")
  formData,          \* useState({ name: "", scopes: [], expiresAt: "" })
  createApiKeyCall,  \* the awaited call of handleSubmit: <<>> or <<its argument>>
  returnedKeys,      \* the tokenSecrets for which a call has returned success
  lastKey            \* the last event of the component and the state it met

keyVars ==
  <<open, loading, showToken, createdToken, formData, createApiKeyCall, returnedKeys,
    lastKey>>

vars == <<inventoryVars, viewVars, appsVars, keyVars>>

props == <<list, initialError, dataCount, searchString, statusCounts>>

(***************************************************************************)
(* StatusTabs                                                              *)
(***************************************************************************)
\* const searchParams = useSearchParams()
useSearchParams == NewURLSearchParams(search)

\* Mutant: statusCounts[value] || statusCounts.all
CountOrAll(counts, value) ==
  IF value \in DOMAIN counts /\ counts[value] # 0 THEN counts[value] ELSE counts[all]

\* statusCounts[value] || 0
CountOrZero(counts, value) ==
  IF value \in DOMAIN counts /\ counts[value] # 0 THEN counts[value] ELSE 0

\* const statuses = Object.entries(statusConfig).map(...)
statuses(counts) ==
  [i \in DOMAIN statusConfig |->
     [value |-> statusConfig[i].value,
      label |-> statusConfig[i].label,
      count |-> CountOrZero(counts, statusConfig[i].value)]]

\* Mutant: the last element of the array is taken instead of the first.
TryDecodeLast(statusFilter) ==
  LET d == decodeURIComponent(statusFilter)
      j == JSONParse(d.v)
      parsed == j.v
      first == parsed.v[Len(parsed.v)]
      prop == GetProperty(first, ValueName)
  IN  IF d.threw THEN [exc |-> "URIError", assigned |-> FALSE, value |-> JsUndefined]
      ELSE IF j.threw THEN [exc |-> "SyntaxError", assigned |-> FALSE, value |-> JsUndefined]
      ELSE IF ~(parsed.t = "array" /\ Len(parsed.v) > 0)
           THEN [exc |-> "none", assigned |-> FALSE, value |-> JsUndefined]
      ELSE IF TypeOf(first) = "string"
           THEN [exc |-> "none", assigned |-> TRUE, value |-> first]
      ELSE IF prop.threw THEN [exc |-> "TypeError", assigned |-> FALSE, value |-> JsUndefined]
      ELSE [exc |-> "none", assigned |-> TRUE, value |-> prop.v]

\* The body of the try block: JSON.parse(decodeURIComponent(statusFilter)),
\* then the assignment to currentStatus when the value is a non-empty array.
\* [exc, assigned, value]: exc is the exception the block ends with, or "none".
TryDecode(statusFilter) ==
  LET d == decodeURIComponent(statusFilter)
      j == JSONParse(d.v)
      parsed == j.v
      first == parsed.v[1]
      prop == GetProperty(first, ValueName)
  IN  IF d.threw THEN [exc |-> "URIError", assigned |-> FALSE, value |-> JsUndefined]
      ELSE IF j.threw THEN [exc |-> "SyntaxError", assigned |-> FALSE, value |-> JsUndefined]
      ELSE IF ~(parsed.t = "array" /\ Len(parsed.v) > 0)
           THEN [exc |-> "none", assigned |-> FALSE, value |-> JsUndefined]
      ELSE IF TypeOf(first) = "string"
           THEN [exc |-> "none", assigned |-> TRUE, value |-> first]
      ELSE IF prop.threw THEN [exc |-> "TypeError", assigned |-> FALSE, value |-> JsUndefined]
      ELSE [exc |-> "none", assigned |-> TRUE, value |-> prop.v]

\* catch (e) { }: what is thrown on, given what the try block threw.
CatchIgnore(exc) == "none"

\* Mutant: let currentStatus; with the default "all" forgotten.
DeriveStatusNoDefault(searchParams) ==
  LET statusFilter == ParamsGet(searchParams, StatusMatchesName)
      t == TryDecode(statusFilter)
  IN  IF statusFilter = Null \/ statusFilter = <<>>
      THEN [threw |-> "none", currentStatus |-> JsUndefined]
      ELSE [threw |-> CatchIgnore(t.exc),
            currentStatus |-> IF t.assigned THEN t.value ELSE JsUndefined]

\* Lines 35-47: [threw, currentStatus] from the searchParams of this render.
DeriveStatus(searchParams) ==
  LET statusFilter == ParamsGet(searchParams, StatusMatchesName)
      t == TryDecode(statusFilter)
  IN  IF statusFilter = Null \/ statusFilter = <<>>
      THEN [threw |-> "none", currentStatus |-> JsString(all)]
      ELSE [threw |-> CatchIgnore(t.exc),
            currentStatus |-> IF t.assigned THEN t.value ELSE JsString(all)]

currentStatus == DeriveStatus(useSearchParams).currentStatus

\* statuses.findIndex((s) => s.value === status): 0-based, -1 when there is none.
FindIndex(sts, status) ==
  IF \E i \in DOMAIN sts : StrictEquals(JsString(sts[i].value), status)
  THEN (CHOOSE i \in DOMAIN sts :
          /\ StrictEquals(JsString(sts[i].value), status)
          /\ \A j \in 1..(i - 1) : ~StrictEquals(JsString(sts[j].value), status)) - 1
  ELSE -1

\* Mutant: the offset for the "all" tab forgotten.
activeIndexNoOffset(sts, status) ==
  IF StrictEquals(status, JsString(all)) THEN 0 ELSE FindIndex(sts, status)

\* const activeIndex = currentStatus === "all" ? 0 : findIndex(...) + 1
activeIndex(sts, status) ==
  IF StrictEquals(status, JsString(all)) THEN 0 ELSE FindIndex(sts, status) + 1

\* router.push(href): the href is resolved against the current URL.
ResolveHref(href, curPath, curSearch) ==
  LET i == IndexOf(href, "?")
      q == IF i = 0 THEN <<>> ELSE DropN(href, i - 1)
  IN  IF href = <<>> THEN [pathname |-> curPath, search |-> curSearch]
      ELSE [pathname |-> IF i = 0 THEN href
                         ELSE IF i = 1 THEN curPath
                         ELSE SubSeq(href, 1, i - 1),
            search |-> IF Len(q) <= 1 THEN <<>> ELSE q]

\* Mutant: the page is not reset.
StatusChangeHrefKeepPage(path, searchParams, status) ==
  LET params0 == NewURLSearchParams(ParamsToString(searchParams))
      params2 == IF status = all
                 THEN ParamsDelete(params0, StatusMatchesName)
                 ELSE ParamsSet(params0, StatusMatchesName, JSONStringifyArray1(status))
  IN  path \o <<"?">> \o ParamsToString(params2)

\* Mutant: "all" is written like any other key.
StatusChangeHrefNoAllBranch(path, searchParams, status) ==
  LET params0 == NewURLSearchParams(ParamsToString(searchParams))
      params1 == ParamsSet(params0, PageName, <<"1">>)
      params2 == ParamsSet(params1, StatusMatchesName, JSONStringifyArray1(status))
  IN  path \o <<"?">> \o ParamsToString(params2)

\* Mutant: the params start empty instead of from the current query.
StatusChangeHrefFreshParams(path, searchParams, status) ==
  LET params1 == ParamsSet(<<>>, PageName, <<"1">>)
      params2 == IF status = all
                 THEN ParamsDelete(params1, StatusMatchesName)
                 ELSE ParamsSet(params1, StatusMatchesName, JSONStringifyArray1(status))
  IN  path \o <<"?">> \o ParamsToString(params2)

\* The href handleStatusChange(status) gives router.push, for the pathname
\* and the searchParams of the render the handler was created in.
StatusChangeHref(path, searchParams, status) ==
  LET params0 == NewURLSearchParams(ParamsToString(searchParams))
      params1 == ParamsSet(params0, PageName, <<"1">>)
      params2 == IF status = all
                 THEN ParamsDelete(params1, StatusMatchesName)
                 ELSE ParamsSet(params1, StatusMatchesName, JSONStringifyArray1(status))
  IN  path \o <<"?">> \o ParamsToString(params2)

(***************************************************************************)
(* InventoryListPageClient                                                 *)
(***************************************************************************)
\* Number.prototype.toString for a non-negative integer.
RECURSIVE NumberToString(_)
NumberToString(n) ==
  IF n < 10 THEN <<HexDigits[n + 1]>>
  ELSE NumberToString(n \div 10) \o <<HexDigits[(n % 10) + 1]>>

\* The href handlePageChange(newPage) gives router.push, locationSearch being
\* window.location.search.
PageChangeHref(locationSearch, newPage) ==
  LET params0 == NewURLSearchParams(locationSearch)
      params1 == IF newPage # 0 /\ newPage > 1
                 THEN ParamsSet(params0, PageName, NumberToString(newPage))
                 ELSE ParamsDelete(params0, PageName)
  IN  IF ParamsToString(params1) # <<>> THEN <<"?">> \o ParamsToString(params1) ELSE <<>>

\* const hasFilters = !!searchString
hasFilters == searchString # <<>>

isFiltered == hasFilters

\* const isEmpty = data?.count === 0 && !isFiltered
isEmpty == dataCount = 0 /\ ~isFiltered

\* Mutant: the empty href, which keeps the current query.
ResetFiltersHrefEmpty(locationPathname) == <<>>

\* The href handleResetFilters gives router.push, locationPathname being
\* window.location.pathname.
ResetFiltersHref(locationPathname) == locationPathname

\* Mutant: the empty state is tested before the error.
RenderStateEmptyFirst ==
  IF ~list THEN "ListNotFound"
  ELSE IF isEmpty THEN "EmptyStateDefault"
  ELSE IF initialError # Null THEN "Error"
  ELSE IF dataCount = 0 THEN "EmptyStateSearch"
  ELSE "List"

\* What the component returns: the early return for a missing list, then the
\* conditional chain of the list region.
RenderState ==
  IF ~list THEN "ListNotFound"
  ELSE IF initialError # Null THEN "Error"
  ELSE IF isEmpty THEN "EmptyStateDefault"
  ELSE IF dataCount = 0 THEN "EmptyStateSearch"
  ELSE "List"

\* {statusCounts && <StatusTabs ... />} below the early return.
StatusTabsRendered == list /\ statusCounts # <<>>

(***************************************************************************)
(* The indicators of StatusTabs (lines 63-89). The geometry is read from   *)
(* the refs while the component renders; the refs are attached when the    *)
(* render is committed.                                                    *)
(***************************************************************************)
\* offsetLeft and offsetWidth of the index-th tab node under a layout: the
\* tabs lie side by side and their widths differ.
TabGeometry(lay, index) ==
  [offsetLeft |-> index * lay + (index * (index - 1)) \div 2,
   offsetWidth |-> lay + index]

\* tabRefs.current once every tab of the strip is mounted (lines 94, 117).
MountedRefs == [i \in 1..(Len(statusConfig) + 1) |-> TRUE]

\* tabRefs.current[index] is a node.
HasNode(refs, index) == (index + 1) \in DOMAIN refs /\ refs[index + 1]

\* Mutant: a missing node is read as if it were mounted.
RefOffsetWidthUnguarded(refs, lay, index) == TabGeometry(lay, index).offsetWidth

\* tabRefs.current[index]?.offsetLeft || 0
RefOffsetLeft(refs, lay, index) ==
  IF HasNode(refs, index) THEN TabGeometry(lay, index).offsetLeft ELSE 0

\* tabRefs.current[index]?.offsetWidth || 0
RefOffsetWidth(refs, lay, index) ==
  IF HasNode(refs, index) THEN TabGeometry(lay, index).offsetWidth ELSE 0

\* scrollContainerRef.current ? scrollContainerRef.current.scrollLeft : 0
ScrollOffset(container, scroll) == IF container THEN scroll ELSE 0

\* Mutant: the render decodes the URL the navigation started from, not the
\* searchParams it is given.
RenderStatusStale(searchParams) ==
  DeriveStatus(NewURLSearchParams(last.search)).currentStatus

\* Lines 35-47 in a render: currentStatus from the searchParams of that render.
RenderStatus(searchParams) == DeriveStatus(searchParams).currentStatus

\* What one run of the component function reads: the URL's query, the
\* counts, tabRefs.current, the scroll offset (line 70), the layout its
\* nodes have then, and hoveredIndex.
RenderReads(searchValue, counts, refs, container, scroll, lay, hovered) ==
  [search |-> searchValue,
   counts |-> counts,
   refs |-> refs,
   scrollOffset |-> ScrollOffset(container, scroll),
   layout |-> lay,
   hoveredIndex |-> hovered]

\* What that run returns: the selection, the active index and the style of
\* the two indicators (lines 35-47 and 67-89). nodes tells whether
\* tabRefs.current held nodes.
StatusTabsRender(reads) ==
  CHOOSE output \in UNION {
    { [currentStatus |-> status,
       activeIndex |-> index,
       nodes |-> reads.refs # <<>>,
       activeLeft |-> RefOffsetLeft(reads.refs, reads.layout, index) - reads.scrollOffset,
       activeWidth |-> RefOffsetWidth(reads.refs, reads.layout, index),
       hoverLeft |-> IF reads.hoveredIndex # <<>>
                     THEN RefOffsetLeft(reads.refs, reads.layout, reads.hoveredIndex[1])
                            - reads.scrollOffset
                     ELSE 0,
       hoverWidth |-> IF reads.hoveredIndex # <<>>
                      THEN RefOffsetWidth(reads.refs, reads.layout, reads.hoveredIndex[1])
                      ELSE 0,
       hoverOpacity |-> IF reads.hoveredIndex # <<>> THEN 1 ELSE 0] :
        index \in {activeIndex(statuses(reads.counts), status)} } :
      status \in {RenderStatus(NewURLSearchParams(reads.search))} } : TRUE

(***************************************************************************)
(* AppsPageClient: the activation dialog and handleCreateApp.              *)
(***************************************************************************)
AVAILABLE_APPS ==
  << [id |-> "openship-shop", title |-> "Openship Shop", type |-> "shop"],
     [id |-> "openship-channel", title |-> "Openship Channel", type |-> "channel"] >>

AppIds == {AVAILABLE_APPS[i].id : i \in DOMAIN AVAILABLE_APPS}

\* AVAILABLE_APPS.find(a => a.id === appId): <<>> for undefined.
FindApp(appId) ==
  IF \E i \in DOMAIN AVAILABLE_APPS : AVAILABLE_APPS[i].id = appId
  THEN <<AVAILABLE_APPS[CHOOSE i \in DOMAIN AVAILABLE_APPS : AVAILABLE_APPS[i].id = appId]>>
  ELSE <<>>

RECURSIVE TrimStart(_)
TrimStart(s) == IF s # <<>> /\ Head(s) = " " THEN TrimStart(Tail(s)) ELSE s

RECURSIVE TrimEnd(_)
TrimEnd(s) ==
  IF s # <<>> /\ s[Len(s)] = " " THEN TrimEnd(SubSeq(s, 1, Len(s) - 1)) ELSE s

\* String.prototype.trim, the space being the only white space typed.
Trim(s) == TrimEnd(TrimStart(s))

\* Mutant: the card's button is never disabled.
IsActivatedNever(apps, appId) == FALSE

\* activatedApps.includes(app.id), which disables the card's button.
IsActivated(apps, appId) == \E i \in DOMAIN apps : apps[i] = appId

\* What the text field may be made to hold.
OpenshipUrlCases ==
  { <<>>,
    <<" ">>,
    <<"o", ".", "i", "o">>,
    <<" ", "o", ".", "i", "o", " ">> }

AppsState ==
  [activatedApps |-> activatedApps,
   isActivationDialogOpen |-> isActivationDialogOpen,
   selectedApp |-> selectedApp,
   openshipUrl |-> openshipUrl]

AppsEvent(op, appId) == [op |-> op, app |-> appId, pre |-> AppsState]

\* The state of a freshly loaded apps page.
AppsPageLoaded ==
  /\ activatedApps = <<>>
  /\ isActivationDialogOpen = FALSE
  /\ selectedApp = <<>>
  /\ openshipUrl = <<>>
  /\ isCreatingApp = FALSE
  /\ createCall = <<>>

\* onActivate of a card. The dialog is modal, so a card is clicked only
\* while it is closed.
handleActivate(appId) ==
  /\ ~isActivationDialogOpen
  /\ ~IsActivated(activatedApps, appId)
  /\ LET app == FindApp(appId)
     IN  IF app # <<>>
         THEN /\ selectedApp' = app
              /\ openshipUrl' = <<>>
              /\ isActivationDialogOpen' = TRUE
         ELSE UNCHANGED <<selectedApp, openshipUrl, isActivationDialogOpen>>
  /\ lastApps' = AppsEvent("handleActivate", appId)
  /\ UNCHANGED <<activatedApps, isCreatingApp, createCall, returnedSuccess>>
  /\ UNCHANGED <<inventoryVars, viewVars, keyVars>>

\* onChange of the URL field, which is disabled while isCreatingApp.
UrlChange(value) ==
  /\ isActivationDialogOpen
  /\ ~isCreatingApp
  /\ value # openshipUrl
  /\ openshipUrl' = value
  /\ lastApps' = AppsEvent("onChange", "")
  /\ UNCHANGED <<activatedApps, isActivationDialogOpen, selectedApp, isCreatingApp,
                 createCall, returnedSuccess>>
  /\ UNCHANGED <<inventoryVars, viewVars, keyVars>>

\* onOpenChange(false) of the Dialog: Escape, a click outside, the close
\* button. Nothing disables it while a call is in flight.
DialogDismiss ==
  /\ isActivationDialogOpen
  /\ isActivationDialogOpen' = FALSE
  /\ lastApps' = AppsEvent("onOpenChange", "")
  /\ UNCHANGED <<activatedApps, selectedApp, openshipUrl, isCreatingApp, createCall,
                 returnedSuccess>>
  /\ UNCHANGED <<inventoryVars, viewVars, keyVars>>

\* onClick of Cancel, which is disabled while isCreatingApp.
CancelClick ==
  /\ isActivationDialogOpen
  /\ ~isCreatingApp
  /\ isActivationDialogOpen' = FALSE
  /\ lastApps' = AppsEvent("cancel", "")
  /\ UNCHANGED <<activatedApps, selectedApp, openshipUrl, isCreatingApp, createCall,
                 returnedSuccess>>
  /\ UNCHANGED <<inventoryVars, viewVars, keyVars>>

\* onClick of "Create App" (enabled for a non-blank URL while no call is
\* in flight): handleCreateApp up to its await.
handleCreateApp ==
  /\ isActivationDialogOpen
  /\ Trim(openshipUrl) # <<>>
  /\ ~isCreatingApp
  /\ IF selectedApp = <<>> \/ Trim(openshipUrl) = <<>>
     THEN UNCHANGED <<isCreatingApp, createCall>>
     ELSE /\ isCreatingApp' = TRUE
          /\ createCall' = <<[app |-> selectedApp[1], openshipUrl |-> Trim(openshipUrl)]>>
  /\ lastApps' = AppsEvent("handleCreateApp", IF selectedApp = <<>> THEN "" ELSE selectedApp[1].id)
  /\ UNCHANGED <<activatedApps, isActivationDialogOpen, selectedApp, openshipUrl,
                 returnedSuccess>>
  /\ UNCHANGED <<inventoryVars, viewVars, keyVars>>

CreateOutcomes == {"success", "failure", "throw"}

\* The awaited call settles and handleCreateApp runs to its end, with the
\* selectedApp of its closure.
CreateSettles(outcome) ==
  /\ createCall # <<>>
  /\ createCall' = <<>>
  /\ isCreatingApp' = FALSE
  /\ lastApps' = AppsEvent(outcome, createCall[1].app.id)
  /\ IF outcome = "success"
     THEN /\ activatedApps' = Append(activatedApps, createCall[1].app.id)
          /\ isActivationDialogOpen' = FALSE
          /\ selectedApp' = <<>>
          /\ openshipUrl' = <<>>
          /\ returnedSuccess' = returnedSuccess \cup {createCall[1].app.id}
     ELSE UNCHANGED <<activatedApps, isActivationDialogOpen, selectedApp, openshipUrl,
                      returnedSuccess>>
  /\ UNCHANGED <<inventoryVars, viewVars, keyVars>>

\* window.location.reload() at the end of handleInstall: the page loads
\* anew and a call in flight is never heard of again.
PageReload ==
  /\ activatedApps' = <<>>
  /\ isActivationDialogOpen' = FALSE
  /\ selectedApp' = <<>>
  /\ openshipUrl' = <<>>
  /\ isCreatingApp' = FALSE
  /\ createCall' = <<>>
  /\ lastApps' = AppsEvent("reload", "")
  /\ UNCHANGED returnedSuccess
  /\ UNCHANGED <<inventoryVars, viewVars, keyVars>>

NextApps ==
  \/ \E appId \in AppIds : handleActivate(appId)
  \/ \E value \in OpenshipUrlCases : UrlChange(value)
  \/ DialogDismiss
  \/ CancelClick
  \/ handleCreateApp
  \/ \E outcome \in CreateOutcomes : CreateSettles(outcome)
  \/ PageReload

(***************************************************************************)
(* CreateApiKey: the dialog, the form and handleSubmit.                    *)
(***************************************************************************)
TokenBytes == 32

Base62 ==
  << "A", "B", "C", "D", "E", "F", "G", "H", "I", "J", "K", "L", "M", "N", "O", "P", "Q",
     "R", "S", "T", "U", "V", "W", "X", "Y", "Z", "a", "b", "c", "d", "e", "f", "g", "h",
     "i", "j", "k", "l", "m", "n", "o", "p", "q", "r", "s", "t", "u", "v", "w", "x", "y",
     "z", "0", "1", "2", "3", "4", "5", "6", "7", "8", "9" >>

\* generateApiKeyToken() with the bytes crypto.getRandomValues delivers.
generateApiKeyToken(randomBytes) ==
  <<"o", "f", "_">> \o [i \in DOMAIN randomBytes |-> Base62[(randomBytes[i] % Len(Base62)) + 1]]

\* Bytes the random source may deliver.
RandomBytesCases ==
  { [i \in 1..TokenBytes |-> 0],
    [i \in 1..TokenBytes |-> (i * 37) % 256] }

NameCases == { <<>>, <<" ">>, <<"b", "o", "t">> }

ScopesCases == { <<>>, <<"read_products">>, <<"read_products", "write_orders">> }

ExpiresAtCases == { <<>>, <<"2", "0", "3", "0", "-", "0", "1", "-", "0", "1", "T", "0", "0", ":", "0", "0">> }

EmptyForm == [name |-> <<>>, scopes |-> <<>>, expiresAt |-> <<>>]

\* Mutant: only the name is validated.
ValidationErrorNameOnly(form) ==
  IF Trim(form.name) = <<>> THEN "Please enter a name for your API key" ELSE ""

\* The two checks at the head of handleSubmit: the message of the toast, ""
\* when both pass.
ValidationError(form) ==
  IF Trim(form.name) = <<>> THEN "Please enter a name for your API key"
  ELSE IF Len(form.scopes) = 0 THEN "Please select at least one scope"
  ELSE ""

KeyState == [loading |-> loading, showToken |-> showToken, createdToken |-> createdToken]

KeyEvent(op, called, token) ==
  [op |-> op, called |-> called, token |-> token, pre |-> KeyState]

\* The state of a freshly mounted CreateApiKey.
CreateApiKeyMounted ==
  /\ open = FALSE
  /\ loading = FALSE
  /\ showToken = FALSE
  /\ createdToken = <<>>
  /\ formData = EmptyForm
  /\ createApiKeyCall = <<>>

\* onOpenChange(true): the trigger button opens the dialog.
DialogOpen ==
  /\ ~open
  /\ open' = TRUE
  /\ lastKey' = KeyEvent("open", FALSE, <<>>)
  /\ UNCHANGED <<loading, showToken, createdToken, formData, createApiKeyCall, returnedKeys>>
  /\ UNCHANGED <<inventoryVars, viewVars, appsVars>>

\* onOpenChange(false): Escape, a click outside, the close button.
DialogClose ==
  /\ open
  /\ open' = FALSE
  /\ showToken' = FALSE
  /\ createdToken' = <<>>
  /\ formData' = EmptyForm
  /\ lastKey' = KeyEvent("onOpenChange", FALSE, <<>>)
  /\ UNCHANGED <<loading, createApiKeyCall, returnedKeys>>
  /\ UNCHANGED <<inventoryVars, viewVars, appsVars>>

\* onClick of Cancel (the form) and of Done (the token).
handleClose ==
  /\ open
  /\ open' = FALSE
  /\ showToken' = FALSE
  /\ createdToken' = <<>>
  /\ formData' = EmptyForm
  /\ lastKey' = KeyEvent("handleClose", FALSE, <<>>)
  /\ UNCHANGED <<loading, createApiKeyCall, returnedKeys>>
  /\ UNCHANGED <<inventoryVars, viewVars, appsVars>>

\* onChange of the name and expiration fields and handleScopeChange: the
\* form is on screen while the dialog is open and no token is shown.
FormChange ==
  /\ open
  /\ ~showToken
  /\ \/ \E name \in NameCases : formData' = [formData EXCEPT !.name = name]
     \/ \E scopes \in ScopesCases : formData' = [formData EXCEPT !.scopes = scopes]
     \/ \E expiresAt \in ExpiresAtCases : formData' = [formData EXCEPT !.expiresAt = expiresAt]
  /\ formData' # formData
  /\ lastKey' = KeyEvent("onChange", FALSE, <<>>)
  /\ UNCHANGED <<open, loading, showToken, createdToken, createApiKeyCall, returnedKeys>>
  /\ UNCHANGED <<inventoryVars, viewVars, appsVars>>

\* onSubmit of the form, up to the await. The submit button is disabled
\* while loading and the required name field keeps an empty name from
\* being submitted.
\* An expiresAt of "" is passed as undefined, which <<>> stands for.
handleSubmit ==
  /\ open
  /\ ~showToken
  /\ ~loading
  /\ formData.name # <<>>
  /\ IF ValidationError(formData) # ""
     THEN /\ lastKey' = KeyEvent("rejected", FALSE, <<>>)
          /\ UNCHANGED <<loading, createApiKeyCall>>
     ELSE \E randomBytes \in RandomBytesCases :
            \E generatedToken \in {generateApiKeyToken(randomBytes)} :
              /\ loading' = TRUE
              /\ createApiKeyCall' = <<[name |-> formData.name,
                                        scopes |-> formData.scopes,
                                        expiresAt |-> formData.expiresAt,
                                        tokenSecret |-> generatedToken]>>
              /\ lastKey' = KeyEvent("submitted", TRUE, generatedToken)
  /\ UNCHANGED <<open, showToken, createdToken, formData, returnedKeys>>
  /\ UNCHANGED <<inventoryVars, viewVars, appsVars>>

KeyOutcomes == {"success", "failure", "throw"}

\* The awaited createApiKey settles and handleSubmit runs to its end.
CreateApiKeySettles(outcome) ==
  /\ createApiKeyCall # <<>>
  /\ createApiKeyCall' = <<>>
  /\ loading' = FALSE
  /\ lastKey' = KeyEvent(outcome, FALSE, createApiKeyCall[1].tokenSecret)
  /\ IF outcome = "success"
     THEN /\ createdToken' = createApiKeyCall[1].tokenSecret
          /\ showToken' = TRUE
          /\ returnedKeys' = returnedKeys \cup {createApiKeyCall[1].tokenSecret}
     ELSE UNCHANGED <<createdToken, showToken, returnedKeys>>
  /\ UNCHANGED <<open, formData>>
  /\ UNCHANGED <<inventoryVars, viewVars, appsVars>>

\* Some settlement of the call in flight.
CallSettles == \E outcome \in KeyOutcomes : CreateApiKeySettles(outcome)

NextApiKey ==
  \/ DialogOpen
  \/ DialogClose
  \/ handleClose
  \/ FormChange
  \/ handleSubmit
  \/ CallSettles

(***************************************************************************)
(* Bounds and inputs                                                       *)
(***************************************************************************)
MaxScroll == 1

MaxLayout == 2

MaxPage == 2

MaxCount == 1

InventoryPath == <<"/", "i", "n", "v", "e", "n", "t", "o", "r", "y">>

widget == <<"w", "i", "d", "g", "e", "t">>

ErrorMessage == <<"t", "i", "m", "e", "o", "u", "t">>

discontinued == <<"d", "i", "s", "c", "o", "n", "t", "i", "n", "u", "e", "d">>

SearchName == <<"s", "e", "a", "r", "c", "h">>

SortByName == <<"s", "o", "r", "t", "B", "y">>

\* Values of the !status_matches parameter a URL may arrive with, as
\* searchParams.get returns them.
InitialStatusValues ==
  { JSONStringifyArray1(low_stock),
    JSONStringifyArray1(all),
    JSONStringifyArray1(widget),
    <<"[", "]">>,
    <<>>,
    low_stock,
    <<"%">>,
    <<"%", "F", "F">>,
    UrlencodedByteSerialize(JSONStringifyArray1(out_of_stock)),
    <<"[", "n", "u", "l", "l", "]">>,
    <<"[", "1", "]">>,
    <<"[", "{", "}", "]">>,
    <<"[", "{", "\"">> \o ValueName \o <<"\"", ":", "\"">> \o in_stock \o <<"\"", "}", "]">>,
    <<"{", "\"">> \o ValueName \o <<"\"", ":", "\"">> \o in_stock \o <<"\"", "}">>,
    <<"[", "\"">> \o backordered \o <<"\"", ",", "\"">> \o in_stock \o <<"\"", "]">>,
    <<"[", "\"">> \o in_stock \o <<"\"", ",">> }

\* Parameters other than page and the status filter.
InitialOtherParams ==
  { <<>>,
    << <<SearchName, widget>>, <<SortByName, <<"-", "n", "a", "m", "e">>>> >> }

InitialStatusParams ==
  {<<>>} \cup {<< <<StatusMatchesName, v>> >> : v \in InitialStatusValues}

InitialPageParams ==
  {<<>>, << <<PageName, NumberToString(MaxPage)>> >>}

\* The status filters that arrive together with other parameters.
InitialStatusParamsWithOthers ==
  { <<>>,
    << <<StatusMatchesName, JSONStringifyArray1(low_stock)>> >>,
    << <<StatusMatchesName, <<"[", "1", "]">> >> >> }

InitialSearches ==
  { LET q == ParamsToString(o \o s \o p)
    IN  IF q = <<>> THEN <<>> ELSE <<"?">> \o q :
      <<o, s, p>> \in
        ({<<>>} \X InitialStatusParams \X InitialPageParams)
          \cup (InitialOtherParams \X InitialStatusParamsWithOthers \X InitialPageParams) }

\* statusCounts as the server may supply them: the spec's example, one that
\* lacks configured keys, one with a key that is not configured, and null.
StatusCountsCases ==
  { <<>>,
    << (all :> 10) @@ (in_stock :> 7) @@ (low_stock :> 0) @@ (out_of_stock :> 2)
         @@ (backordered :> 1) >>,
    << (all :> 3) @@ (in_stock :> 3) >>,
    << (all :> 5) @@ (in_stock :> 1) @@ (low_stock :> 2) @@ (discontinued :> 2) >> }

\* The props of one server render: every combination of error, count and
\* search term with the example counts, every other statusCounts on a plain
\* list, and a missing list.
PropsCases ==
    { [list |-> TRUE, initialError |-> e, dataCount |-> c, searchString |-> t,
       statusCounts |-> CHOOSE sc \in StatusCountsCases : sc # <<>> /\ backordered \in DOMAIN sc[1]] :
        e \in {Null, ErrorMessage}, c \in {0, MaxCount}, t \in {<<>>, widget} }
  \cup
    { [list |-> TRUE, initialError |-> Null, dataCount |-> MaxCount, searchString |-> <<>>,
       statusCounts |-> sc] : sc \in StatusCountsCases }
  \cup
    { [list |-> FALSE, initialError |-> Null, dataCount |-> 0, searchString |-> <<>>,
       statusCounts |-> <<>>] }

NoHandler == [op |-> "load", status |-> <<>>, page |-> 0, pathname |-> <<>>, search |-> <<>>]

\* The props the server hands the page in the scenarios of the indicators:
\* a list of items with every count, the same without statusCounts (no
\* StatusTabs), and a search without results.
ViewPropsCases ==
  { p \in PropsCases :
      /\ p.list
      /\ p.initialError = Null
      /\ \/ /\ p.dataCount = MaxCount
            /\ p.searchString = <<>>
            /\ (p.statusCounts = <<>> \/ backordered \in DOMAIN p.statusCounts[1])
         \/ p.dataCount = 0 /\ p.searchString = widget }

\* The URLs the scenarios of the indicators start from.
ViewInitialSearches ==
  { <<>>,
    <<"?">> \o ParamsToString(<< <<StatusMatchesName, JSONStringifyArray1(low_stock)>>,
                                 <<PageName, NumberToString(MaxPage)>> >>) }

\* The first render of StatusTabs and its commit: the refs are empty while
\* the function runs and are attached afterwards; nothing renders again.
FirstMount(lay) ==
  /\ hoveredIndex = <<>>
  /\ scrollLeft = 0
  /\ layout = lay
  /\ IF StatusTabsRendered
     THEN /\ view = <<RenderReads(search, statusCounts[1], <<>>, FALSE, 0, lay, <<>>)>>
          /\ tabRefs = MountedRefs
          /\ scrollContainerRef = TRUE
     ELSE /\ view = <<>>
          /\ tabRefs = <<>>
          /\ scrollContainerRef = FALSE

InitPage(searches, served) ==
  /\ pathname = InventoryPath
  /\ search \in searches
  /\ \E p \in served :
       /\ list = p.list
       /\ initialError = p.initialError
       /\ dataCount = p.dataCount
       /\ searchString = p.searchString
       /\ statusCounts = p.statusCounts
  /\ last = NoHandler

\* AppsPageClient and CreateApiKey belong to other pages; while the
\* inventory page is on screen they are in the state they are constructed in.
OtherPagesIdle ==
  /\ AppsPageLoaded
  /\ returnedSuccess = {}
  /\ lastApps = AppsEvent("load", "")
  /\ CreateApiKeyMounted
  /\ returnedKeys = {}
  /\ lastKey = KeyEvent("load", FALSE, <<>>)

Init ==
  /\ InitPage(InitialSearches, PropsCases)
  /\ FirstMount(1)
  /\ OtherPagesIdle

\* The server render of the new URL hands the page its props.
ServerRender(served) ==
  \E p \in served :
    /\ list' = p.list
    /\ initialError' = p.initialError
    /\ dataCount' = p.dataCount
    /\ searchString' = p.searchString
    /\ statusCounts' = p.statusCounts

\* A render of the mounted StatusTabs with the given query, counts, hover
\* state and DOM scroll offset, and its commit.
Rerender(searchValue, counts, hovered, scroll) ==
  /\ view' = <<RenderReads(searchValue, counts, tabRefs, scrollContainerRef, scroll,
                           layout, hovered)>>
  /\ tabRefs' = MountedRefs
  /\ scrollContainerRef' = TRUE

\* The page renders with a new URL and new props. StatusTabs keeps its state
\* and refs while it stays in the tree; it is mounted anew, or unmounted,
\* when statusCounts (or the list) appears or disappears.
PageRender ==
  /\ UNCHANGED <<appsVars, keyVars>>
  /\ layout' = layout
  /\ IF list' /\ statusCounts' # <<>>
     THEN /\ hoveredIndex' = hoveredIndex
          /\ scrollLeft' = scrollLeft
          /\ Rerender(search', statusCounts'[1], hoveredIndex, scrollLeft)
     ELSE /\ hoveredIndex' = <<>>
          /\ scrollLeft' = 0
          /\ view' = <<>>
          /\ tabRefs' = <<>>
          /\ scrollContainerRef' = FALSE

\* router.push(href) and the render of the URL it leads to.
RouterPush(href, served) ==
  \E to \in {ResolveHref(href, pathname, search)} :
    /\ pathname' = to.pathname
    /\ search' = to.search
    /\ ServerRender(served)
    /\ PageRender

\* onClick of a tab: handleStatusChange("all") or handleStatusChange(status.value)
handleStatusChange(status, served) ==
  /\ StatusTabsRendered
  /\ last' = [op |-> "handleStatusChange", status |-> status, page |-> 0,
              pathname |-> pathname, search |-> search]
  /\ RouterPush(StatusChangeHref(pathname, useSearchParams, status), served)

handlePageChange(newPage, served) ==
  /\ list
  /\ last' = [op |-> "handlePageChange", status |-> <<>>, page |-> newPage,
              pathname |-> pathname, search |-> search]
  /\ RouterPush(PageChangeHref(search, newPage), served)

\* onClick of the "Reset Filters" action, which only EmptyStateSearch shows.
handleResetFilters(served) ==
  /\ RenderState = "EmptyStateSearch"
  /\ last' = [op |-> "handleResetFilters", status |-> <<>>, page |-> 0,
              pathname |-> pathname, search |-> search]
  /\ RouterPush(ResetFiltersHref(pathname), served)

\* The handlers of the page, the server answering with one of served.
Navigate(served) ==
  \/ \E status \in {all} \cup StatusKeys : handleStatusChange(status, served)
  \/ \E newPage \in 1..MaxPage : handlePageChange(newPage, served)
  \/ handleResetFilters(served)

Next == Navigate(PropsCases)

Spec == Init /\ [][Next]_vars

\* onMouseEnter of the index-th tab: setHoveredIndex(index) and the render
\* it causes.
handleMouseEnter(index) ==
  /\ StatusTabsRendered
  /\ hoveredIndex # <<index>>
  /\ hoveredIndex' = <<index>>
  /\ Rerender(search, statusCounts[1], <<index>>, scrollLeft)
  /\ UNCHANGED <<inventoryVars, appsVars, keyVars, scrollLeft, layout>>

\* onMouseLeave of a tab: setHoveredIndex(null) and the render it causes.
handleMouseLeave ==
  /\ StatusTabsRendered
  /\ hoveredIndex # <<>>
  /\ hoveredIndex' = <<>>
  /\ Rerender(search, statusCounts[1], <<>>, scrollLeft)
  /\ UNCHANGED <<inventoryVars, appsVars, keyVars, scrollLeft, layout>>

\* The strip is scrolled to another offset; onScroll calls handleScroll,
\* whose updateScroll(n => n + 1) causes a render. The counter itself is
\* dropped by the destructuring of line 22 and is never read.
handleScroll ==
  /\ StatusTabsRendered
  /\ \E offset \in 0..MaxScroll :
       /\ offset # scrollLeft
       /\ scrollLeft' = offset
       /\ Rerender(search, statusCounts[1], hoveredIndex, offset)
  /\ UNCHANGED <<inventoryVars, appsVars, keyVars, hoveredIndex, layout>>

\* The viewport is resized: every tab node gets another geometry. The
\* component has no listener for it and no effect, so nothing renders.
ViewportResize ==
  /\ StatusTabsRendered
  /\ \E lay \in 1..MaxLayout :
       /\ lay # layout
       /\ layout' = lay
  /\ UNCHANGED <<inventoryVars, appsVars, keyVars, hoveredIndex, tabRefs, scrollContainerRef,
                 scrollLeft, view>>

\* The browser's back button after a navigation: the URL is again the one
\* the navigation started from, and the page renders it (useSearchParams,
\* line 19, follows the URL).
HistoryBack(served) ==
  /\ last.op \notin {"load", "back"}
  /\ last' = [op |-> "back", status |-> <<>>, page |-> 0,
              pathname |-> pathname, search |-> search]
  /\ pathname' = last.pathname
  /\ search' = last.search
  /\ ServerRender(served)
  /\ PageRender

\* The browser's forward button after a back: the URL that was left.
HistoryForward(served) ==
  /\ last.op = "back"
  /\ last' = [op |-> "forward", status |-> <<>>, page |-> 0,
              pathname |-> pathname, search |-> search]
  /\ pathname' = last.pathname
  /\ search' = last.search
  /\ ServerRender(served)
  /\ PageRender

\* The tabs clicked in the scenarios of the indicators.
ViewTabs == {all, in_stock, low_stock}

\* The handlers of the page in the scenarios of the indicators.
NavigateView ==
  \/ \E status \in ViewTabs : handleStatusChange(status, ViewPropsCases)
  \/ \E newPage \in 1..MaxPage : handlePageChange(newPage, ViewPropsCases)
  \/ handleResetFilters(ViewPropsCases)

InitView ==
  /\ InitPage(ViewInitialSearches, ViewPropsCases)
  /\ \E lay \in 1..MaxLayout : FirstMount(lay)
  /\ OtherPagesIdle

NextView ==
  \/ NavigateView
  \/ \E index \in 0..Len(statusConfig) : handleMouseEnter(index)
  \/ handleMouseLeave
  \/ handleScroll
  \/ ViewportResize

\* StatusTabs and its indicators under navigation, pointer, scroll and
\* resize events.
SpecView == InitView /\ [][NextView]_vars

InitHistory ==
  /\ InitPage(ViewInitialSearches, ViewPropsCases)
  /\ FirstMount(1)
  /\ OtherPagesIdle

NextHistory ==
  \/ NavigateView
  \/ HistoryBack(ViewPropsCases)
  \/ HistoryForward(ViewPropsCases)
  \/ \E index \in 0..Len(statusConfig) : handleMouseEnter(index)
  \/ handleMouseLeave
  \/ handleScroll

\* StatusTabs under navigation, the browser's history, pointer and scroll
\* events.
SpecHistory == InitHistory /\ [][NextHistory]_vars

\* The inventory page is not on screen: none of its state exists.
InventoryPageAbsent ==
  /\ pathname = <<>>
  /\ search = <<>>
  /\ list = FALSE
  /\ initialError = Null
  /\ dataCount = 0
  /\ searchString = <<>>
  /\ statusCounts = <<>>
  /\ last = NoHandler
  /\ FirstMount(1)

InitApps ==
  /\ AppsPageLoaded
  /\ returnedSuccess = {}
  /\ lastApps = AppsEvent("load", "")
  /\ CreateApiKeyMounted
  /\ returnedKeys = {}
  /\ lastKey = KeyEvent("load", FALSE, <<>>)
  /\ InventoryPageAbsent

\* The apps page: activation of the available apps.
SpecApps == InitApps /\ [][NextApps]_vars

InitApiKey == InitApps

\* CreateApiKey; a call to createApiKey that is in flight settles.
SpecApiKey == InitApiKey /\ [][NextApiKey]_vars /\ WF_vars(CallSettles)

(***************************************************************************)
(* What StatusTabs renders (lines 111-135): one tab per element of         *)
(* statuses, each reading statusConfig[status.value].color.                *)
(***************************************************************************)
\* statusConfig[value]: the descriptor, <<>> standing for undefined.
ConfigOf(value) ==
  IF \E i \in DOMAIN statusConfig : statusConfig[i].value = value
  THEN <<statusConfig[CHOOSE i \in DOMAIN statusConfig : statusConfig[i].value = value]>>
  ELSE <<>>

\* [threw, tabs]: config.color of an undefined config throws TypeError.
RenderTabs(counts) ==
  LET sts == statuses(counts)
  IN  [threw |-> \E i \in DOMAIN sts : ConfigOf(sts[i].value) = <<>>,
       tabs |-> [i \in DOMAIN sts |->
                   [key |-> sts[i].value, label |-> sts[i].label, badge |-> sts[i].count]]]

(***************************************************************************)
(* Properties                                                              *)
(***************************************************************************)
\* The URL the last handler ran on.
PreParams == NewURLSearchParams(last.search)

\* The parameters other than the status filter and the page, in order.
OtherParams(params) == ParamsDelete(ParamsDelete(params, StatusMatchesName), PageName)

ParamCount(params, name) == Cardinality({i \in DOMAIN params : params[i][1] = name})

TabSelected == last.op = "handleStatusChange"

PageChanged == last.op = "handlePageChange"

\* C1 (as stated): after any tab selection the URL has no page parameter.
C1_PageAbsent == TabSelected => ~ParamsHas(useSearchParams, PageName)

\* C1 (amended): after any tab selection, from any URL, the URL has exactly
\* one page parameter and its value is "1", written explicitly.
C1_PageResetToOne ==
  TabSelected =>
    /\ ParamsGet(useSearchParams, PageName) = <<"1">>
    /\ ParamCount(useSearchParams, PageName) = 1

C1_Witness ==
  /\ TabSelected
  /\ ParamsGet(PreParams, PageName) = NumberToString(MaxPage)
  /\ ParamsGet(useSearchParams, PageName) = <<"1">>

\* The URL carries a status filter: its parameter decodes to a key, not "all".
StatusFilterActive == currentStatus.t = "string" /\ currentStatus.v # all

\* C2: with a list, no error and count = 0, the "no results" empty state is
\* rendered whenever a search term is set or a status filter is active.
C2_NoResultsWhenFiltered ==
  (list /\ initialError = Null /\ dataCount = 0 /\ (searchString # <<>> \/ StatusFilterActive))
    => RenderState = "EmptyStateSearch"

\* C3: after selecting the tab of a configured key k, the selection that
\* the next render of StatusTabs decodes from the resulting URL is k.
C3_RoundTrip ==
  (TabSelected /\ last.status \in StatusKeys /\ StatusTabsRendered)
    => currentStatus = JsString(last.status)

C3_Witness ==
  /\ TabSelected
  /\ StatusTabsRendered
  /\ last.status = low_stock
  /\ DeriveStatus(PreParams).currentStatus = JsString(in_stock)
  /\ currentStatus = JsString(low_stock)

\* The parameter value cannot yield a key: it fails URL-decoding, fails JSON
\* parsing, or is a non-empty array whose first element is neither a string
\* nor an object with a string under "value".
CannotYieldKey(statusFilter) ==
  LET d == decodeURIComponent(statusFilter)
      j == JSONParse(d.v)
      first == j.v.v[1]
  IN  \/ d.threw
      \/ j.threw
      \/ /\ j.v.t = "array"
         /\ Len(j.v.v) > 0
         /\ first.t # "string"
         /\ ~(HasOwn(first, ValueName) /\ GetProperty(first, ValueName).v.t = "string")

\* C4: decoding is total: no exception escapes the render of StatusTabs, and
\* a parameter value that cannot yield a key gives the selection "all".
C4_DecodeTotal ==
  StatusTabsRendered =>
    LET statusFilter == ParamsGet(useSearchParams, StatusMatchesName)
    IN  /\ DeriveStatus(useSearchParams).threw = "none"
        /\ (statusFilter # Null /\ CannotYieldKey(statusFilter))
             => currentStatus = JsString(all)

\* C5: an absent parameter and a parameter holding the empty JSON array both
\* decode to "all".
C5_AbsentAndEmptyAreAll ==
  (/\ StatusTabsRendered
   /\ \/ ~ParamsHas(useSearchParams, StatusMatchesName)
      \/ ParamsGet(useSearchParams, StatusMatchesName) = <<"[", "]">>)
    => currentStatus = JsString(all)

C5_Witness ==
  /\ StatusTabsRendered
  /\ ParamsGet(useSearchParams, StatusMatchesName) = <<"[", "]">>
  /\ currentStatus = JsString(all)
  /\ last.op = "load"

\* C6: selecting "all" leaves no status parameter in the URL, and no tab
\* selection leaves the key "all" encoded in it.
C6_AllIsNeverEncoded ==
  TabSelected =>
    /\ last.status = all => ~ParamsHas(useSearchParams, StatusMatchesName)
    /\ ParamsGet(useSearchParams, StatusMatchesName) # JSONStringifyArray1(all)

C6_Witness ==
  /\ TabSelected
  /\ last.status = all
  /\ ParamsHas(PreParams, StatusMatchesName)
  /\ ~ParamsHas(useSearchParams, StatusMatchesName)

\* C7: a tab selection keeps the path and every parameter other than the
\* status filter and the page, with its value and position.
C7_TabSelectionFrame ==
  TabSelected =>
    /\ pathname = last.pathname
    /\ OtherParams(useSearchParams) = OtherParams(PreParams)

C7_Witness ==
  /\ TabSelected
  /\ last.status = backordered
  /\ ParamsGet(PreParams, SearchName) = widget
  /\ ParamsGet(useSearchParams, SearchName) = widget
  /\ ParamsHas(useSearchParams, SortByName)
  /\ currentStatus # DeriveStatus(PreParams).currentStatus

\* C8: after handlePageChange(n) the URL has page = n when n > 1 and no page
\* parameter when n = 1, and every other parameter is unchanged.
C8_PageChangeFrame ==
  PageChanged =>
    /\ pathname = last.pathname
    /\ ParamsDelete(useSearchParams, PageName) = ParamsDelete(PreParams, PageName)
    /\ IF last.page > 1
       THEN /\ ParamsGet(useSearchParams, PageName) = NumberToString(last.page)
            /\ ParamCount(useSearchParams, PageName) = 1
       ELSE ~ParamsHas(useSearchParams, PageName)

\* C9: the active index is 0 for "all", i+1 for the i-th configured status
\* (0-based), and 0 for a selection that matches no configured status.
C9_ActiveIndex ==
  StatusTabsRendered =>
    LET sts == statuses(statusCounts[1])
        idx == activeIndex(sts, currentStatus)
    IN  /\ currentStatus = JsString(all) => idx = 0
        /\ \A i \in DOMAIN statusConfig :
             currentStatus = JsString(statusConfig[i].value) => idx = (i - 1) + 1
        /\ (\A i \in DOMAIN statusConfig : currentStatus # JsString(statusConfig[i].value))
             => idx = 0

C9_Witness ==
  /\ StatusTabsRendered
  /\ TabSelected
  /\ last.status = statusConfig[3].value
  /\ currentStatus = JsString(statusConfig[3].value)
  /\ activeIndex(statuses(statusCounts[1]), currentStatus) = 3

\* A tab for key k is displayed with badge n.
TabShown(render, k, n) ==
  \E i \in DOMAIN render.tabs : render.tabs[i].key = k /\ render.tabs[i].badge = n

\* C10 (as stated): a key that is in one of statusConfig and statusCounts and
\* not in the other gets a tab with badge 0, and rendering does not fail.
C10_DisagreeEitherWay ==
  StatusTabsRendered =>
    LET counts == statusCounts[1]
        render == RenderTabs(counts)
    IN  /\ ~render.threw
        /\ \A k \in (StatusKeys \cup DOMAIN counts) \ {all} :
             (k \notin StatusKeys \/ k \notin DOMAIN counts) => TabShown(render, k, 0)

\* C10 (amended): every configured key gets a tab; the badge is 0 when the
\* key is absent from statusCounts or its count is 0, and the count
\* otherwise; rendering does not fail; a key that is only in statusCounts
\* gets no tab.
C10_ConfiguredTabsDefaultZero ==
  StatusTabsRendered =>
    LET counts == statusCounts[1]
        render == RenderTabs(counts)
    IN  /\ ~render.threw
        /\ \A k \in StatusKeys :
             IF k \notin DOMAIN counts \/ counts[k] = 0
             THEN TabShown(render, k, 0)
             ELSE TabShown(render, k, counts[k])
        /\ \A i \in DOMAIN render.tabs : render.tabs[i].key \in StatusKeys

C10_Witness ==
  /\ StatusTabsRendered
  /\ backordered \notin DOMAIN statusCounts[1]
  /\ discontinued \in DOMAIN statusCounts[1]
  /\ statusCounts[1][low_stock] # 0
  /\ TabShown(RenderTabs(statusCounts[1]), backordered, 0)

\* C11: with a list present exactly one of the four states of the list
\* region is rendered; it is the error state whenever an error is present,
\* and the "never populated" state for count = 0 without a search term and
\* without a status filter.
C11_RenderStates ==
  list =>
    /\ RenderState \in {"Error", "EmptyStateDefault", "EmptyStateSearch", "List"}
    /\ initialError # Null => RenderState = "Error"
    /\ (initialError = Null /\ dataCount = 0 /\ searchString = <<>> /\ ~StatusFilterActive)
         => RenderState = "EmptyStateDefault"
    /\ (initialError = Null /\ dataCount > 0) => RenderState = "List"

C11_Witness ==
  /\ list
  /\ initialError # Null
  /\ dataCount = 0
  /\ searchString = <<>>
  /\ RenderState = "Error"
  /\ last.op = "handlePageChange"

ResetDone == last.op = "handleResetFilters"

\* C12: after the reset action of the "no results" state the URL is the
\* path it was invoked on, with no query parameter at all.
C12_ResetClearsQuery ==
  ResetDone =>
    /\ pathname = last.pathname
    /\ search = <<>>
    /\ useSearchParams = <<>>

C12_Witness ==
  /\ ResetDone
  /\ ParamsHas(PreParams, SearchName)
  /\ ParamsHas(PreParams, StatusMatchesName)
  /\ ParamsHas(PreParams, PageName)
  /\ ParamsHas(PreParams, SortByName)
  /\ search = <<>>

\* The !status_matches value of the URL parses to a non-empty JSON array.
ParsedArray ==
  LET statusFilter == ParamsGet(useSearchParams, StatusMatchesName)
      d == decodeURIComponent(statusFilter)
      j == JSONParse(d.v)
  IN  IF statusFilter # Null /\ statusFilter # <<>> /\ ~d.threw /\ ~j.threw
         /\ j.v.t = "array" /\ Len(j.v.v) > 0
      THEN j.v.v
      ELSE <<>>

\* C16: for a value that parses to a non-empty array the selection is the
\* first element when that is a string and the first element's value field
\* (undefined when it has none) when that is an object, whatever follows.
C16_FirstWins ==
  (StatusTabsRendered /\ ParsedArray # <<>>) =>
    LET first == ParsedArray[1]
    IN  /\ first.t = "string" => currentStatus = first
        /\ first.t = "object" =>
             currentStatus = (IF HasOwn(first, ValueName)
                              THEN GetProperty(first, ValueName).v
                              ELSE JsUndefined)

C16_Witness ==
  /\ StatusTabsRendered
  /\ Len(ParsedArray) > 1
  /\ ParsedArray[1] # ParsedArray[Len(ParsedArray)]
  /\ currentStatus = ParsedArray[1]
  /\ PageChanged

\* What the last render of StatusTabs returned.
Output == StatusTabsRender(view[1])

\* The selection the last render of StatusTabs showed.
ShownStatus == Output.currentStatus

\* A step of one of the pointer and scroll handlers.
HoverOrScroll ==
  /\ hoveredIndex' # hoveredIndex \/ scrollLeft' # scrollLeft
  /\ \/ \E index \in 0..Len(statusConfig) : handleMouseEnter(index)
     \/ handleMouseLeave
     \/ handleScroll

\* C13: whatever tab selections, page changes, resets, back and forward
\* navigations, hover and scroll events have happened, the selection
\* StatusTabs shows is the decoding of the current URL's !status_matches;
\* a hover or scroll event changes neither the URL nor that selection.
C13_UrlIsSourceOfTruth ==
  /\ [](StatusTabsRendered => (view # <<>> /\ ShownStatus = currentStatus))
  /\ [][HoverOrScroll =>
          /\ pathname' = pathname
          /\ search' = search
          /\ \A after \in {view'} :
               StatusTabsRender(after[1]).currentStatus = ShownStatus]_vars

C13_Witness ==
  /\ last.op = "back"
  /\ hoveredIndex # <<>>
  /\ scrollLeft > 0
  /\ view # <<>>
  /\ ShownStatus = currentStatus
  /\ currentStatus = JsString(low_stock)
  /\ DeriveStatus(NewURLSearchParams(last.search)).currentStatus = JsString(in_stock)

C15_IndicatorsFollowGeometry ==
  StatusTabsRendered =>
    /\ Output.activeLeft = TabGeometry(layout, Output.activeIndex).offsetLeft - scrollLeft
    /\ Output.activeWidth = TabGeometry(layout, Output.activeIndex).offsetWidth
    /\ hoveredIndex # <<>> =>
         /\ Output.hoverLeft = TabGeometry(layout, hoveredIndex[1]).offsetLeft - scrollLeft
         /\ Output.hoverWidth = TabGeometry(layout, hoveredIndex[1]).offsetWidth

\* C17: an id is in activatedApps only if createOpenshipOAuthApp has returned
\* success for that app; a failed result or a thrown exception leaves
\* activatedApps as it was and does not close the dialog; and activatedApps
\* never holds an id twice.
C17_ActivatedOnlyAfterSuccess ==
  /\ \A i \in DOMAIN activatedApps : activatedApps[i] \in returnedSuccess
  /\ lastApps.op \in {"failure", "throw"} =>
       /\ activatedApps = lastApps.pre.activatedApps
       /\ isActivationDialogOpen = lastApps.pre.isActivationDialogOpen
  /\ \A i, j \in DOMAIN activatedApps : activatedApps[i] = activatedApps[j] => i = j

C17_Witness ==
  /\ lastApps.op \in {"failure", "throw"}
  /\ lastApps.app = "openship-channel"
  /\ activatedApps = <<"openship-shop">>
  /\ isActivationDialogOpen
  /\ selectedApp # <<>>
  /\ ~isCreatingApp

\* C18: when the request for app A succeeds while the activation dialog is
\* open for a different app B, the dialog stays open, B stays selected and
\* the Openship URL stays as it was.
C18_CompletionIsLocal ==
  ( /\ lastApps.op = "success"
    /\ lastApps.pre.isActivationDialogOpen
    /\ lastApps.pre.selectedApp # <<>>
    /\ lastApps.pre.selectedApp[1].id # lastApps.app ) =>
      /\ isActivationDialogOpen
      /\ selectedApp = lastApps.pre.selectedApp
      /\ openshipUrl = lastApps.pre.openshipUrl

\* What a submit and the end of its call leave behind.
KeySafety ==
  /\ lastKey.op = "rejected" =>
       /\ ~lastKey.called
       /\ createApiKeyCall = <<>>
       /\ KeyState = lastKey.pre
  /\ lastKey.op = "submitted" =>
       /\ lastKey.called
       /\ loading
       /\ createApiKeyCall # <<>>
  /\ createApiKeyCall # <<>> =>
       /\ Trim(createApiKeyCall[1].name) # <<>>
       /\ Len(createApiKeyCall[1].scopes) > 0
  /\ lastKey.op \in {"failure", "throw"} =>
       /\ createdToken = lastKey.pre.createdToken
       /\ showToken = lastKey.pre.showToken
  /\ lastKey.op = "success" => createdToken = lastKey.token
  /\ createdToken # <<>> => createdToken \in returnedKeys

\* C19: a submit with a blank name or without a scope calls nothing and
\* leaves loading, showToken and createdToken alone; a submit that passes
\* sets loading, and loading is false again once its call has settled;
\* createdToken is set only by a success and is the tokenSecret of that call.
C19_SubmitAndLoading ==
  /\ []KeySafety
  /\ (loading ~> ~loading)

C19_Witness ==
  /\ lastKey.op = "success"
  /\ ~loading
  /\ showToken
  /\ Len(createdToken) = 3 + TokenBytes
  /\ createdToken = lastKey.token
  /\ Cardinality(returnedKeys) = 2

====
